---- MODULE Spec2Model ----
(***************************************************************************)
(* Model of teradata_aitools/td_dba_tools.py: the result normalizer        *)
(* (serialize_teradata_types, rows_to_json), the response envelope builder *)
(* (create_response) and the five diagnostic tool handlers that run one    *)
(* statement on a cursor of a caller-supplied connection.                   *)
(*                                                                         *)
(* Three specifications:                                                   *)
(*   SpecNormalizer  rows_to_json applied to bounded inputs                *)
(*   SpecEnvelope    create_response applied to bounded inputs             *)
(*   Spec            tool calls on the host's threads against a database   *)
(*                   that may fail at cursor(), execute() and fetchall()   *)
(***************************************************************************)
EXTENDS Integers, Sequences, FiniteSets, TLC

VARIABLES
    \* rows_to_json under test
    cursor_description, rows, npc, nret,
    \* create_response under test
    data, metadata, epc, response,
    \* serialize_teradata_types under test: the value, the site that calls
    \* it (a cell in rows_to_json, or the default hook of json.dumps)
    sobj, site, spc, sret,
    \* tool calls: the connection's open cursors, and per thread the call in
    \* progress, its cursor, the statement sent, what the database answered
    \* and raised, what the call handed back, and counts of what it did
    open_cursors, pc, call, cur, stmt, dbresp, fetched, outcome, dbRaised,
    acquired, executes, fetches

nvars == <<cursor_description, rows, npc, nret>>
evars == <<data, metadata, epc, response>>
tvars == <<open_cursors, pc, call, cur, stmt, dbresp, fetched, outcome, dbRaised, acquired, executes, fetches>>
svars == <<sobj, site, spc, sret>>
vars == <<nvars, evars, svars, tvars>>

(***************************************************************************)
(* Bounds                                                                  *)
(***************************************************************************)
MaxCols == 2
MaxRows == 2
MaxRowLen == 2
MaxDbRows == 1
MaxMeta == 2

(***************************************************************************)
(* Python values.  A value is [t |-> its type, v |-> its str() text].      *)
(***************************************************************************)
Val(t, v) == [t |-> t, v |-> v]
Str(s) == Val("str", s)
NoneVal == Val("NoneType", "None")

\* the types json.dumps encodes without calling its default hook
NativeTypes == {"str", "int", "float", "bool", "NoneType"}

Dates == {"2024-01-15", "1999-12-31", "2024-02-29"}
Times == {"10:30:00", "00:00:00", "23:59:59.000001"}

\* str(datetime) joins the date and the time with a blank
DateTime(d, tm) == Val("datetime", d \o " " \o tm)

Values ==
    { Str("x"), Str(""), Val("int", "5"), Val("int", "0"), Val("bool", "True"),
      Val("bool", "False"), NoneVal, Val("float", "1.5"),
      Val("date", "2024-01-15"), DateTime("2024-01-15", "10:30:00"),
      Val("Decimal", "1.50"), Val("Decimal", "0.1000000000000000055"),
      Val("bytes", "b'ab'") }

\* an exception raised while a value is converted, in place of the value
Throw(e) == Val("raise", e)

\* date.isoformat() is the text str() gives; datetime.isoformat() joins the
\* date and the time with "T" where str() puts a blank
isoformat(obj) ==
    IF obj.t = "date" THEN obj.v
    ELSE LET p == CHOOSE p \in Dates \X Times : obj.v = p[1] \o " " \o p[2]
         IN  p[1] \o "T" \o p[2]

\* float(Decimal): the nearest double, printed as Python prints a float;
\* a signaling NaN has none and float() raises ValueError
DecimalTexts ==
    {"1.50", "0.1000000000000000055", "10", "-0.00", "1E+999", "NaN", "Infinity", "sNaN"}
float_raises(obj) == obj.v = "sNaN"
float(obj) ==
    CASE obj.v = "1.50" -> "1.5"
      [] obj.v = "0.1000000000000000055" -> "0.1"
      [] obj.v = "10" -> "10.0"
      [] obj.v = "-0.00" -> "-0.0"
      [] obj.v = "1E+999" -> "inf"
      [] obj.v = "NaN" -> "nan"
      [] obj.v = "Infinity" -> "inf"

\* mutant: the date test comes first and formats the date part only
serialize_teradata_types_date_only(obj) ==
    IF obj.t = "date" THEN Str(obj.v)
    ELSE IF obj.t = "datetime"
    THEN Str((CHOOSE p \in Dates \X Times : obj.v = p[1] \o " " \o p[2])[1])
    ELSE IF obj.t = "Decimal"
    THEN (IF float_raises(obj) THEN Throw("ValueError") ELSE Val("float", float(obj)))
    ELSE Str(obj.v)

serialize_teradata_types(obj) ==
    IF obj.t \in {"date", "datetime"} THEN Str(isoformat(obj))
    ELSE IF obj.t = "Decimal"
    THEN (IF float_raises(obj) THEN Throw("ValueError") ELSE Val("float", float(obj)))
    ELSE Str(obj.v)

(***************************************************************************)
(* Python dict, insertion ordered: a sequence of <<key, value>> pairs with *)
(* distinct keys.  Setting a key that is present keeps its position.       *)
(***************************************************************************)
Keys(d) == [i \in 1..Len(d) |-> d[i][1]]
HasKey(d, k) == \E i \in 1..Len(d) : d[i][1] = k
Get(d, k) == d[CHOOSE i \in 1..Len(d) : d[i][1] = k][2]
\* mutant: a list of pairs, a repeated key is appended again
DictSetAppend(d, k, v) == Append(d, <<k, v>>)

DictSet(d, k, v) ==
    IF HasKey(d, k)
    THEN [i \in 1..Len(d) |-> IF d[i][1] = k THEN <<k, v>> ELSE d[i]]
    ELSE Append(d, <<k, v>>)

Min(a, b) == IF a <= b THEN a ELSE b
SeqsUpTo(S, n) == UNION {[1..k -> S] : k \in 0..n}

\* mutant: zip_longest, the shorter of the two is padded with None
zip_longest(columns, row) ==
    [i \in 1..(IF Len(columns) >= Len(row) THEN Len(columns) ELSE Len(row)) |->
        <<IF i <= Len(columns) THEN columns[i] ELSE "None",
          IF i <= Len(row) THEN row[i] ELSE NoneVal>>]

\* zip(columns, row): stops at the shorter of the two
zip(columns, row) == [i \in 1..Min(Len(columns), Len(row)) |-> <<columns[i], row[i]>>]

RECURSIVE DictComp(_, _)
\* {col: serialize_teradata_types(value) for col, value in pairs}
DictComp(pairs, d) ==
    IF pairs = <<>> THEN d
    ELSE DictComp(Tail(pairs),
                  DictSet(d, Head(pairs)[1], serialize_teradata_types(Head(pairs)[2])))

\* a cursor description: None, or a sequence of column tuples whose first
\* entry is the column name
Desc(cols) == [none |-> FALSE, cols |-> cols]
NoDesc == [none |-> TRUE, cols |-> <<>>]
Col(name) == <<name, "type_code">>

\* what a call hands back: a value, or the exception that left it
Returned(v) == [raised |-> "none", value |-> v]
Raised(e) == [raised |-> e, value |-> <<>>]

\* mutant: the records are built from the rows in reverse order
rows_to_json_reversed(description, rs) ==
    IF description.none \/ description.cols = <<>> \/ rs = <<>>
    THEN Returned(<<>>)
    ELSE LET columns == [i \in 1..Len(description.cols) |-> description.cols[i][1]]
         IN  Returned([i \in 1..Len(rs) |->
                          DictComp(zip(columns, rs[Len(rs) + 1 - i]), <<>>)])

\* mutant: the guard tests the rows only, so an absent description is
\* iterated (TypeError) and an empty one yields one empty record per row
rows_to_json_rows_guard_only(description, rs) ==
    IF rs = <<>> THEN Returned(<<>>)
    ELSE IF description.none THEN Raised("TypeError")
    ELSE LET columns == [i \in 1..Len(description.cols) |-> description.cols[i][1]]
         IN  Returned([i \in 1..Len(rs) |-> DictComp(zip(columns, rs[i]), <<>>)])

\* the exceptions raised while the cells of the records were converted
Thrown(recs) ==
    UNION { {recs[i][j][2].v : j \in {k \in 1..Len(recs[i]) : recs[i][k][2].t = "raise"}} :
            i \in 1..Len(recs) }

rows_to_json(description, rs) ==
    IF description.none \/ description.cols = <<>> \/ rs = <<>>
    THEN Returned(<<>>)
    ELSE LET columns == [i \in 1..Len(description.cols) |-> description.cols[i][1]]
             recs == [i \in 1..Len(rs) |-> DictComp(zip(columns, rs[i]), <<>>)]
         IN  IF Thrown(recs) # {} THEN Raised(CHOOSE e \in Thrown(recs) : TRUE)
             ELSE Returned(recs)

(***************************************************************************)
(* create_response.  The envelope is the dict handed to json.dumps, a      *)
(* sequence of <<key, value>> pairs; the returned JSON text is modelled by *)
(* the tree it parses to: json.dumps encodes a value of a native type as   *)
(* it is and hands any other to its default hook.                          *)
(***************************************************************************)
\* mutant: the hook handed to json.dumps is str
json_value_default_str(v) == IF v.t \in NativeTypes THEN v ELSE Str(v.v)

json_value(v) == IF v.t \in NativeTypes THEN v ELSE serialize_teradata_types(v)
json_object(d) == [i \in 1..Len(d) |-> <<d[i][1], json_value(d[i][2])>>]
json_array(recs) == [i \in 1..Len(recs) |-> json_object(recs[i])]

\* an optional metadata mapping: None, or a dict
Meta(items) == [none |-> FALSE, items |-> items]
NoMeta == [none |-> TRUE, items |-> <<>>]

\* mutant: the test is "metadata is not None", an empty mapping is kept
create_response_not_none(d, m) ==
    IF ~m.none
    THEN << <<"status", Str("success")>>, <<"metadata", json_object(m.items)>>,
            <<"results", json_array(d)>> >>
    ELSE << <<"status", Str("success")>>, <<"results", json_array(d)>> >>

\* mutant: an empty result is reported with another status
create_response_empty_status(d, m) ==
    LET st == IF d = <<>> THEN Str("empty") ELSE Str("success")
    IN  IF ~m.none /\ m.items # <<>>
        THEN << <<"status", st>>, <<"metadata", json_object(m.items)>>,
                <<"results", json_array(d)>> >>
        ELSE << <<"status", st>>, <<"results", json_array(d)>> >>

create_response(d, m) ==
    IF ~m.none /\ m.items # <<>>
    THEN << <<"status", Str("success")>>, <<"metadata", json_object(m.items)>>,
            <<"results", json_array(d)>> >>
    ELSE << <<"status", Str("success")>>, <<"results", json_array(d)>> >>

(***************************************************************************)
(* The tool handlers.  A statement is the variant chosen (named after the  *)
(* handler and the filters it applies) and its WHERE predicates in text    *)
(* order, each <<column, operator, operand text>>; an f-string puts a      *)
(* value into the text as str(value).                                      *)
(***************************************************************************)
Threads == {"t1", "t2"}

Statement(sql, where) == [sql |-> sql, where |-> where]
NoStmt == Statement("none", <<>>)
\* mutant: the value is bound as a parameter, the text carries a placeholder
Quoted_bound(v) == "?"

\* '{value}' in an f-string: str(value) between two quote marks, unescaped
Quoted(v) == "'" \o v.v \o "'"
TimeWindow(no_days) ==
    <<"t1.CollectTimeStamp", ">=", "CURRENT_TIMESTAMP - INTERVAL " \o Quoted(no_days) \o " DAY">>

\* mutant: the test is "not user_name", an absent name selects as an empty one
sql_list_statement_falsy(user_name, no_days) ==
    IF user_name \in {Str(""), NoneVal}
    THEN Statement("sql_list_all", <<TimeWindow(no_days)>>)
    ELSE Statement("sql_list_user",
                   <<TimeWindow(no_days), <<"t2.UserName", "=", Quoted(user_name)>> >>)

sql_list_statement(user_name, no_days) ==
    IF user_name = Str("")
    THEN Statement("sql_list_all", <<TimeWindow(no_days)>>)
    ELSE Statement("sql_list_user",
                   <<TimeWindow(no_days), <<"t2.UserName", "=", Quoted(user_name)>> >>)

\* mutant: the two single-filter branches are missing
table_space_statement_two_branches(db_name, table_name) ==
    IF db_name = Str("") /\ table_name = Str("")
    THEN Statement("table_space_all", <<>>)
    ELSE Statement("table_space_db_table",
                   << <<"DatabaseName", "=", Quoted(db_name)>>,
                      <<"TableName", "=", Quoted(table_name)>> >>)

table_space_statement(db_name, table_name) ==
    IF db_name = Str("") /\ table_name = Str("")
    THEN Statement("table_space_all", <<>>)
    ELSE IF db_name = Str("")
    THEN Statement("table_space_table", << <<"TableName", "=", Quoted(table_name)>> >>)
    ELSE IF table_name = Str("")
    THEN Statement("table_space_db", << <<"DatabaseName", "=", Quoted(db_name)>> >>)
    ELSE Statement("table_space_db_table",
                   << <<"DatabaseName", "=", Quoted(db_name)>>,
                      <<"TableName", "=", Quoted(table_name)>> >>)

database_space_statement(db_name) ==
    IF db_name = Str("")
    THEN Statement("database_space_all", << <<"MaxPerm", ">", "0">> >>)
    ELSE Statement("database_space_db",
                   << <<"MaxPerm", ">", "0">>, <<"DatabaseName", "=", Quoted(db_name)>> >>)

database_version_statement == Statement("database_version", <<>>)

resusage_summary_statement ==
    Statement("resusage_summary",
              << <<"LogDate", "BETWEEN", "current_date - 30 AND current_date - 1">>,
                 <<"StartTime", "IS NOT", "NULL">> >>)

\* a call: the tool and its arguments by name
ToolCall(tool, args) == [tool |-> tool, args |-> args]
NoCall == ToolCall("none", <<>>)
Arg(c, name) == Get(c.args, name)

select_statement(c) ==
    CASE c.tool = "read_sql_list" ->
            sql_list_statement(Arg(c, "user_name"), Arg(c, "no_days"))
      [] c.tool = "read_table_space" ->
            table_space_statement(Arg(c, "db_name"), Arg(c, "table_name"))
      [] c.tool = "read_database_space" ->
            database_space_statement(Arg(c, "db_name"))
      [] c.tool = "read_database_version" -> database_version_statement
      [] c.tool = "read_resusage_summary" -> resusage_summary_statement

\* len(data) as a Python int
Numerals == <<"0", "1", "2", "3", "4", "5", "6", "7", "8", "9">>
IntVal(n) == Val("int", Numerals[n + 1])

ResusageComment ==
    Str("Total system resource usage summary by type of workload and query complexity bucket. "
        \o "Metrics are computed aggregated at the hour and day of week level.")

\* mutant: every handler names its count total_rows and echoes no argument
tool_metadata_total_rows(c, records) ==
    << <<"tool_name", Str(c.tool)>>, <<"total_rows", IntVal(Len(records))>> >>

tool_metadata(c, records) ==
    CASE c.tool = "read_sql_list" ->
            << <<"tool_name", Str("read_sql_list")>>,
               <<"user_name", Arg(c, "user_name")>>,
               <<"no_days", Arg(c, "no_days")>>,
               <<"total_queries", IntVal(Len(records))>> >>
      [] c.tool = "read_table_space" ->
            << <<"tool_name", Str("read_table_space")>>,
               <<"db_name", Arg(c, "db_name")>>,
               <<"table_name", Arg(c, "table_name")>>,
               <<"total_tables", IntVal(Len(records))>> >>
      [] c.tool = "read_database_space" ->
            << <<"tool_name", Str("read_database_space")>>,
               <<"db_name", Arg(c, "db_name")>>,
               <<"total_databases", IntVal(Len(records))>> >>
      [] c.tool = "read_database_version" ->
            << <<"tool_name", Str("read_database_version")>>,
               <<"total_rows", IntVal(Len(records))>> >>
      [] c.tool = "read_resusage_summary" ->
            << <<"tool_name", Str("read_resusage_summary")>>,
               <<"total_rows", IntVal(Len(records))>>,
               <<"comment", ResusageComment>> >>

\* data = rows_to_json(cur.description, rows.fetchall());
\* return create_response(data, metadata)
build_response(c, description, fetched_rows) ==
    LET d == rows_to_json(description, fetched_rows)
    IN  IF d.raised # "none" THEN d
        ELSE Returned(create_response(d.value, Meta(tool_metadata(c, d.value))))

\* mutant: the fetched rows are kept in one module-level variable
frame_module_level(t) == "t1"

\* rows, data and metadata are locals of the handler: each call has its own
frame(t) == t

\* mutant: the handler catches the failure and answers with an envelope
report_failure(e) ==
    Returned(<< <<"status", Str("error")>>, <<"results", <<>> >> >>)

\* an exception raised inside a handler: no handler has an except clause, so
\* it leaves the call as it was raised
propagate(e) == Raised(e)

\* mutant: the cursor is closed on the normal path only
exit_on_exception_leak(n) == n

\* leaving the with block closes the cursor, by return or by exception
exit_on_return(n) == n - 1
exit_on_exception(n) == n - 1

(***************************************************************************)
(* The database behind the connection: what a caller may pass, what a      *)
(* statement may answer, and how an operation may fail                     *)
(***************************************************************************)
FilterValues == {NoneVal, Str(""), Str("bob"), Str("o'b")}
NoDaysValues == {NoneVal, Val("int", "7")}

ToolCalls ==
    {ToolCall("read_sql_list", << <<"user_name", u>>, <<"no_days", n>> >>) :
        u \in FilterValues, n \in NoDaysValues}
    \cup {ToolCall("read_table_space", << <<"db_name", d>>, <<"table_name", tb>> >>) :
        d \in FilterValues, tb \in FilterValues}
    \cup {ToolCall("read_database_space", << <<"db_name", d>> >>) : d \in FilterValues}
    \cup {ToolCall("read_database_version", <<>>), ToolCall("read_resusage_summary", <<>>)}

DbErrors == {"OperationalError", "DatabaseError"}
DbRowPool == { <<Str("db1"), Val("Decimal", "1.50")>>, <<Str("db2"), Val("int", "5")>> }
DbDescription == Desc(<<Col("DatabaseName"), Col("CurrentPerm1")>>)
DbResponse(description, rs) == [description |-> description, rows |-> rs]
NoResponse == DbResponse(NoDesc, <<>>)
DbResponses == {DbResponse(DbDescription, rs) : rs \in SeqsUpTo(DbRowPool, MaxDbRows)}

NoOutcome == [raised |-> "pending", value |-> <<>>]

TInitIdle ==
    /\ open_cursors = 0
    /\ pc = [t \in Threads |-> "idle"]
    /\ call = [t \in Threads |-> NoCall]
    /\ cur = [t \in Threads |-> "none"]
    /\ stmt = [t \in Threads |-> NoStmt]
    /\ dbresp = [t \in Threads |-> NoResponse]
    /\ fetched = [t \in Threads |-> <<>>]
    /\ outcome = [t \in Threads |-> NoOutcome]
    /\ dbRaised = [t \in Threads |-> "none"]
    /\ acquired = [t \in Threads |-> 0]
    /\ executes = [t \in Threads |-> 0]
    /\ fetches = [t \in Threads |-> 0]

(***************************************************************************)
(* SpecNormalizer: rows_to_json on every bounded input                     *)
(***************************************************************************)
ColNames == {"a", "b"}
ShapeValues == {Val("int", "5"), Str("x")}

Descriptions == {NoDesc} \cup {Desc(cs) : cs \in SeqsUpTo({Col(n) : n \in ColNames}, MaxCols)}

\* rows of every shape over two values, and one-cell rows of every value
RowInputs ==
    SeqsUpTo(SeqsUpTo(ShapeValues, MaxRowLen), MaxRows)
    \cup {<<r>> : r \in {<<v>> : v \in Values}}
    \cup {<<r>> : r \in {<<v, w>> : v \in Values, w \in ShapeValues}}

SInitIdle ==
    /\ sobj = NoneVal
    /\ site = "none"
    /\ spc = "unused"
    /\ sret = NoneVal

NInitIdle ==
    /\ cursor_description = NoDesc
    /\ rows = <<>>
    /\ npc = "unused"
    /\ nret = Returned(<<>>)

EInitIdle ==
    /\ data = <<>>
    /\ metadata = NoMeta
    /\ epc = "unused"
    /\ response = <<>>

NInit ==
    /\ cursor_description \in Descriptions
    /\ rows \in RowInputs
    /\ npc = "call"
    /\ nret = Returned(<<>>)
    /\ EInitIdle
    /\ SInitIdle
    /\ TInitIdle

Normalize ==
    /\ npc = "call"
    /\ nret' = rows_to_json(cursor_description, rows)
    /\ npc' = "returned"
    /\ UNCHANGED <<cursor_description, rows, evars, svars, tvars>>

SpecNormalizer == NInit /\ [][Normalize]_vars

(***************************************************************************)
(* Claims about rows_to_json (SpecNormalizer)                              *)
(***************************************************************************)
NReturned == npc = "returned"
Columns == [i \in 1..Len(cursor_description.cols) |-> cursor_description.cols[i][1]]
NoDescription == cursor_description.none \/ cursor_description.cols = <<>>
Paired(i) == Min(Len(Columns), Len(rows[i]))
\* the last position among the paired ones that carries column name k
LastPos(k, n) == CHOOSE j \in 1..n : Columns[j] = k /\ \A m \in (j+1)..n : Columns[m] # k
FirstPos(k) == CHOOSE j \in 1..Len(Columns) : Columns[j] = k /\ \A m \in 1..(j-1) : Columns[m] # k

RecordFromRow(rec, i) ==
    /\ \A j \in 1..Paired(i) : HasKey(rec, Columns[j])
    /\ \A p \in 1..Len(rec) :
          /\ \E j \in 1..Paired(i) : Columns[j] = rec[p][1]
          /\ rec[p][2] = serialize_teradata_types(rows[i][LastPos(rec[p][1], Paired(i))])
KeysInColumnOrder(rec) ==
    \A p, q \in 1..Len(rec) :
        p < q => FirstPos(rec[p][1]) < FirstPos(rec[q][1])
RowsKept ==
    /\ nret.raised = "none"
    /\ Len(nret.value) = Len(rows)
    /\ \A i \in 1..Len(rows) :
          RecordFromRow(nret.value[i], i) /\ KeysInColumnOrder(nret.value[i])

\* C1 as stated: for every description and every rows, one record per row,
\* the i-th record built from the i-th row, keys in column order
C1_AsStated == NReturned => RowsKept

\* C1 amended: the same, for every description that is present and non-empty
\* (an absent or empty description yields no records whatever the rows are)
C1_RowsKept == (NReturned /\ ~NoDescription) => RowsKept

C1_Witness ==
    /\ NReturned /\ ~NoDescription
    /\ Len(rows) = 2 /\ rows[1] # rows[2] /\ Len(rows[1]) = 2 /\ Len(rows[2]) = 2
    /\ Len(Columns) = 2 /\ Columns[1] # Columns[2]
    /\ Len(nret.value) = 2 /\ nret.value[1] # nret.value[2]

\* the types the specification calls already JSON-representable
PassThroughTypes == {"str", "int", "bool", "NoneType"}
NameOnce(j, n) == \A m \in 1..n : m # j => Columns[m] # Columns[j]

\* C2 as stated: a text, plain integer, boolean or null cell of a row is held
\* by the record unchanged, same value and same type
C2_NativePassThrough ==
    (NReturned /\ ~NoDescription) =>
        /\ nret.raised = "none"
        /\ \A i \in 1..Len(rows) : \A j \in 1..Paired(i) :
              (rows[i][j].t \in PassThroughTypes /\ NameOnce(j, Paired(i)))
                  => Get(nret.value[i], Columns[j]) = rows[i][j]

\* what the code does hold for such a cell: the text of str(value)
C2_CodeStringifies ==
    (NReturned /\ ~NoDescription) =>
        \A i \in 1..Len(rows) : \A j \in 1..Paired(i) :
            (rows[i][j].t \in PassThroughTypes /\ NameOnce(j, Paired(i)))
                => Get(nret.value[i], Columns[j]) = Str(rows[i][j].v)

RECURSIVE Dedup(_, _)
\* the distinct entries of a sequence, in order of first occurrence
Dedup(s, seen) ==
    IF s = <<>> THEN <<>>
    ELSE IF Head(s) \in seen THEN Dedup(Tail(s), seen)
    ELSE <<Head(s)>> \o Dedup(Tail(s), seen \cup {Head(s)})

SingleFullRow ==
    /\ NReturned /\ ~NoDescription
    /\ Len(rows) = 1 /\ Len(rows[1]) = Len(Columns)

\* C3 as stated: N columns and one row of N values give one record with
\* exactly N keys in column order, also when two columns share a name
C3_AsStated ==
    SingleFullRow =>
        /\ nret.raised = "none" /\ Len(nret.value) = 1
        /\ Len(nret.value[1]) = Len(Columns)
        /\ Keys(nret.value[1]) = Columns

\* C3 amended: one record whose keys are the distinct column names in order
\* of first occurrence; N keys exactly when the N names are pairwise
\* distinct, fewer when a name repeats, and a repeated name holds the value
\* of its last column
C3_OneRecordDistinctKeys ==
    SingleFullRow =>
        /\ nret.raised = "none" /\ Len(nret.value) = 1
        /\ Keys(nret.value[1]) = Dedup(Columns, {})
        /\ (Len(nret.value[1]) = Len(Columns)
              <=> \A j, m \in 1..Len(Columns) : j # m => Columns[j] # Columns[m])
        /\ \A j \in 1..Len(Columns) :
              Get(nret.value[1], Columns[j])
                 = serialize_teradata_types(rows[1][LastPos(Columns[j], Len(Columns))])

C3_Witness ==
    /\ SingleFullRow
    /\ Len(Columns) = 2 /\ Columns[1] = Columns[2] /\ rows[1][1] # rows[1][2]
    /\ Len(nret.value) = 1 /\ Len(nret.value[1]) = 1

\* C10: an absent or empty description, or no rows, gives the empty list and
\* no error, whatever the other argument is
C10_EmptyInEmptyOut ==
    (NReturned /\ (NoDescription \/ rows = <<>>)) => nret = Returned(<<>>)

C10_Witness ==
    /\ NReturned
    /\ cursor_description.none /\ Len(rows) = 2
    /\ nret = Returned(<<>>)

C10_WitnessNoRows ==
    /\ NReturned
    /\ Len(Columns) = 2 /\ rows = <<>>
    /\ nret = Returned(<<>>)

\* C17: a row longer or shorter than the description raises no error and is
\* paired with the columns by position up to the shorter of the two: the
\* record's keys are the first min(columns, row length) column names, a
\* surplus value is dropped and a surplus column gets no key
C17_PairedUpToShorter ==
    (NReturned /\ ~NoDescription) =>
        /\ nret.raised = "none"
        /\ \A i \in 1..Len(rows) :
              Len(rows[i]) # Len(Columns) =>
                  LET rec == nret.value[i] IN
                  /\ {rec[p][1] : p \in 1..Len(rec)} = {Columns[j] : j \in 1..Paired(i)}
                  /\ Len(rec) <= Paired(i)
                  /\ \A j \in 1..Paired(i) :
                        NameOnce(j, Paired(i)) =>
                            Get(rec, Columns[j]) = serialize_teradata_types(rows[i][j])

C17_Witness ==
    /\ NReturned
    /\ Len(Columns) = 1 /\ Len(rows) = 2 /\ Len(rows[1]) = 2 /\ rows[2] = <<>>
    /\ nret.raised = "none"
    /\ Keys(nret.value[1]) = Columns /\ nret.value[2] = <<>>

C17_WitnessShortRow ==
    /\ NReturned
    /\ Len(Columns) = 2 /\ Columns[1] # Columns[2] /\ Len(rows) = 1 /\ Len(rows[1]) = 1
    /\ Keys(nret.value[1]) = <<Columns[1]>>

(***************************************************************************)
(* SpecEnvelope: create_response on every bounded input                    *)
(***************************************************************************)
MetaKeys == {"tool_name", "total_rows", "comment"}
MetaValues == {Str("x"), Val("int", "2"), NoneVal, Val("datetime", "2024-01-15 10:30:00")}
PayloadValues == {Val("int", "1"), Val("int", "2"), Str("x"), Val("Decimal", "1.50"),
                  Val("date", "2024-01-15"), Val("bytes", "b'ab'")}

Injective(f) == \A i, j \in DOMAIN f : i # j => f[i] # f[j]
MetaInputs ==
    {NoMeta} \cup
    {Meta([i \in 1..Len(ks) |-> <<ks[i], vs[i]>>]) :
        <<ks, vs>> \in UNION {{<<k, v>> : k \in {f \in [1..n -> MetaKeys] : Injective(f)},
                                         v \in [1..n -> MetaValues]} : n \in 0..MaxMeta}}
DataInputs == SeqsUpTo({<< <<"a", v>> >> : v \in PayloadValues}, MaxRows)

EInit ==
    /\ data \in DataInputs
    /\ metadata \in MetaInputs
    /\ epc = "call"
    /\ response = <<>>
    /\ NInitIdle
    /\ SInitIdle
    /\ TInitIdle

Envelope ==
    /\ epc = "call"
    /\ response' = create_response(data, metadata)
    /\ epc' = "returned"
    /\ UNCHANGED <<data, metadata, nvars, svars, tvars>>

SpecEnvelope == EInit /\ [][Envelope]_vars

(***************************************************************************)
(* Claims about create_response (SpecEnvelope)                             *)
(***************************************************************************)
EReturned == epc = "returned"
MetaGiven == ~metadata.none /\ metadata.items # <<>>
AllNative(d) == \A i \in 1..Len(d) : d[i][2].t \in NativeTypes

\* C8: three keys status, metadata, results when a non-empty metadata is
\* given, two keys status, results when it is absent or empty; results is the
\* payload given and metadata the mapping given
C8_EnvelopeKeys ==
    EReturned =>
        /\ MetaGiven =>
              /\ Keys(response) = <<"status", "metadata", "results">>
              /\ Get(response, "metadata") = json_object(metadata.items)
              /\ AllNative(metadata.items) => Get(response, "metadata") = metadata.items
        /\ ~MetaGiven => Keys(response) = <<"status", "results">>
        /\ Len(Get(response, "results")) = Len(data)
        /\ \A i \in 1..Len(data) :
              /\ Get(response, "results")[i] = json_object(data[i])
              /\ AllNative(data[i]) => Get(response, "results")[i] = data[i]

\* the two examples of the specification
C8_Witness ==
    /\ EReturned
    /\ metadata = Meta(<< <<"tool_name", Str("x")>>, <<"total_rows", Val("int", "2")>> >>)
    /\ data = << << <<"a", Val("int", "1")>> >>, << <<"a", Val("int", "2")>> >> >>
    /\ response = << <<"status", Str("success")>>, <<"metadata", metadata.items>>,
                     <<"results", data>> >>

C8_WitnessNoMeta ==
    /\ EReturned
    /\ metadata.none /\ data = <<>>
    /\ response = << <<"status", Str("success")>>, <<"results", <<>> >> >>

C8_WitnessEmptyMeta ==
    /\ EReturned
    /\ metadata = Meta(<<>>) /\ Len(data) = 1
    /\ Keys(response) = <<"status", "results">>

\* the form rows_to_json gives a value inside a record
RecordForm(v) == Get(rows_to_json(Desc(<<Col("a")>>), << <<v>> >>).value[1], "a")

\* C12: a value json cannot encode itself (temporal, decimal, other) takes in
\* the serialized metadata and results the form rows_to_json gives it in a
\* record
C12_SameFormAsRecord ==
    EReturned =>
        /\ \A i \in 1..Len(data) : \A j \in 1..Len(data[i]) :
              data[i][j][2].t \notin NativeTypes =>
                  Get(response, "results")[i][j] = <<data[i][j][1], RecordForm(data[i][j][2])>>
        /\ MetaGiven =>
              \A k \in 1..Len(metadata.items) :
                  metadata.items[k][2].t \notin NativeTypes =>
                      Get(response, "metadata")[k]
                          = <<metadata.items[k][1], RecordForm(metadata.items[k][2])>>

C12_Witness ==
    /\ EReturned
    /\ data = << << <<"a", Val("Decimal", "1.50")>> >>, << <<"a", Val("bytes", "b'ab'")>> >> >>
    /\ metadata = Meta(<< <<"comment", DateTime("2024-01-15", "10:30:00")>> >>)
    /\ Get(response, "results")
          = << << <<"a", Val("float", "1.5")>> >>, << <<"a", Str("b'ab'")>> >> >>
    /\ Get(response, "metadata") = << <<"comment", Str("2024-01-15T10:30:00")>> >>

(***************************************************************************)
(* Spec: tool calls.  A thread of the host calls a handler; the handler's  *)
(* steps are its calls on the connection and the cursor, where another     *)
(* thread's call may run in between.                                       *)
(***************************************************************************)
TInit == TInitIdle /\ NInitIdle /\ EInitIdle /\ SInitIdle

\* the host calls a handler with a connection and arguments
Call(t, c) ==
    /\ pc[t] = "idle"
    /\ pc' = [pc EXCEPT ![t] = "called"]
    /\ call' = [call EXCEPT ![t] = c]
    /\ UNCHANGED <<nvars, evars, svars, open_cursors, cur, stmt, dbresp, fetched, outcome, dbRaised,
                   acquired, executes, fetches>>

\* with conn.cursor() as cur:
AcquireCursor(t) ==
    /\ pc[t] = "called"
    /\ open_cursors' = open_cursors + 1
    /\ cur' = [cur EXCEPT ![t] = "open"]
    /\ acquired' = [acquired EXCEPT ![t] = @ + 1]
    /\ pc' = [pc EXCEPT ![t] = "with"]
    /\ UNCHANGED <<nvars, evars, svars, call, stmt, dbresp, fetched, outcome, dbRaised, executes, fetches>>

\* conn.cursor() raises: there is no cursor, the with block is not entered
CursorFails(t, e) ==
    /\ pc[t] = "called"
    /\ dbRaised' = [dbRaised EXCEPT ![t] = e]
    /\ outcome' = [outcome EXCEPT ![t] = propagate(e)]
    /\ pc' = [pc EXCEPT ![t] = "ended"]
    /\ UNCHANGED <<nvars, evars, svars, open_cursors, call, cur, stmt, dbresp, fetched, acquired, executes, fetches>>

\* rows = cur.execute(<the statement chosen>)
Execute(t, r) ==
    /\ pc[t] = "with"
    /\ stmt' = [stmt EXCEPT ![t] = select_statement(call[t])]
    /\ executes' = [executes EXCEPT ![t] = @ + 1]
    /\ dbresp' = [dbresp EXCEPT ![t] = r]
    /\ pc' = [pc EXCEPT ![t] = "executed"]
    /\ UNCHANGED <<nvars, evars, svars, open_cursors, call, cur, fetched, outcome, dbRaised, acquired, fetches>>

\* cur.execute raises; the with block is left by the exception
ExecuteFails(t, e) ==
    /\ pc[t] = "with"
    /\ stmt' = [stmt EXCEPT ![t] = select_statement(call[t])]
    /\ executes' = [executes EXCEPT ![t] = @ + 1]
    /\ dbRaised' = [dbRaised EXCEPT ![t] = e]
    /\ open_cursors' = exit_on_exception(open_cursors)
    /\ cur' = [cur EXCEPT ![t] = IF open_cursors' < open_cursors THEN "closed" ELSE @]
    /\ outcome' = [outcome EXCEPT ![t] = propagate(e)]
    /\ pc' = [pc EXCEPT ![t] = "ended"]
    /\ UNCHANGED <<nvars, evars, svars, call, dbresp, fetched, acquired, fetches>>

\* rows.fetchall()
Fetch(t) ==
    /\ pc[t] = "executed"
    /\ fetched' = [fetched EXCEPT ![frame(t)] = dbresp[t].rows]
    /\ fetches' = [fetches EXCEPT ![t] = @ + 1]
    /\ pc' = [pc EXCEPT ![t] = "fetched"]
    /\ UNCHANGED <<nvars, evars, svars, open_cursors, call, cur, stmt, dbresp, outcome, dbRaised, acquired, executes>>

\* rows.fetchall() raises
FetchFails(t, e) ==
    /\ pc[t] = "executed"
    /\ fetches' = [fetches EXCEPT ![t] = @ + 1]
    /\ dbRaised' = [dbRaised EXCEPT ![t] = e]
    /\ open_cursors' = exit_on_exception(open_cursors)
    /\ cur' = [cur EXCEPT ![t] = IF open_cursors' < open_cursors THEN "closed" ELSE @]
    /\ dbresp' = [dbresp EXCEPT ![t] = NoResponse]
    /\ outcome' = [outcome EXCEPT ![t] = propagate(e)]
    /\ pc' = [pc EXCEPT ![t] = "ended"]
    /\ UNCHANGED <<nvars, evars, svars, call, stmt, fetched, acquired, executes>>

\* rows_to_json, the metadata, create_response; return leaves the with block
Respond(t) ==
    /\ pc[t] = "fetched"
    /\ outcome' = [outcome EXCEPT ![t] =
                      build_response(call[t], dbresp[t].description, fetched[frame(t)])]
    /\ open_cursors' = IF outcome'[t].raised = "none" THEN exit_on_return(open_cursors)
                       ELSE exit_on_exception(open_cursors)
    /\ cur' = [cur EXCEPT ![t] = IF open_cursors' < open_cursors THEN "closed" ELSE @]
    /\ pc' = [pc EXCEPT ![t] = "ended"]
    /\ UNCHANGED <<nvars, evars, svars, call, stmt, dbresp, fetched, dbRaised, acquired, executes, fetches>>

\* the interpreter raises while the response is built (MemoryError)
BuildFails(t) ==
    /\ pc[t] = "fetched"
    /\ open_cursors' = exit_on_exception(open_cursors)
    /\ cur' = [cur EXCEPT ![t] = IF open_cursors' < open_cursors THEN "closed" ELSE @]
    /\ dbresp' = [dbresp EXCEPT ![t] = NoResponse]
    /\ fetched' = [fetched EXCEPT ![frame(t)] = <<>>]
    /\ outcome' = [outcome EXCEPT ![t] = propagate("MemoryError")]
    /\ pc' = [pc EXCEPT ![t] = "ended"]
    /\ UNCHANGED <<nvars, evars, svars, call, stmt, dbRaised, acquired, executes, fetches>>

\* the host takes the outcome; the handler's frame and locals are gone
Finish(t) ==
    /\ pc[t] = "ended"
    /\ pc' = [pc EXCEPT ![t] = "idle"]
    /\ call' = [call EXCEPT ![t] = NoCall]
    /\ cur' = [cur EXCEPT ![t] = "none"]
    /\ stmt' = [stmt EXCEPT ![t] = NoStmt]
    /\ dbresp' = [dbresp EXCEPT ![t] = NoResponse]
    /\ fetched' = [fetched EXCEPT ![frame(t)] = <<>>]
    /\ outcome' = [outcome EXCEPT ![t] = NoOutcome]
    /\ dbRaised' = [dbRaised EXCEPT ![t] = "none"]
    /\ acquired' = [acquired EXCEPT ![t] = 0]
    /\ executes' = [executes EXCEPT ![t] = 0]
    /\ fetches' = [fetches EXCEPT ![t] = 0]
    /\ UNCHANGED <<nvars, evars, svars, open_cursors>>

Next ==
    \E t \in Threads :
        \/ \E c \in ToolCalls : Call(t, c)
        \/ AcquireCursor(t)
        \/ \E e \in DbErrors : CursorFails(t, e)
        \/ \E r \in DbResponses : Execute(t, r)
        \/ \E e \in DbErrors : ExecuteFails(t, e)
        \/ Fetch(t)
        \/ \E e \in DbErrors : FetchFails(t, e)
        \/ Respond(t)
        \/ BuildFails(t)
        \/ Finish(t)

Spec == TInit /\ [][Next]_vars

(***************************************************************************)
(* Claims about the tool calls (Spec)                                      *)
(***************************************************************************)
InWith(t) == pc[t] \in {"with", "executed", "fetched"}
ReturnedEnvelope(t) == pc[t] = "ended" /\ outcome[t].raised = "none"
LeftByException(t) == pc[t] = "ended" /\ outcome[t].raised # "none"

\* C4: a call acquires one cursor, executes once and then fetches once on it,
\* none of these more than once and a call that returns has done each exactly
\* once; the cursor is released on every exit path before the caller has
\* control, and the connection has no open cursor that is not inside the
\* with block of a call in progress
C4_CursorScoped ==
    /\ open_cursors = Cardinality({t \in Threads : InWith(t)})
    /\ \A t \in Threads :
          /\ cur[t] = "open" <=> InWith(t)
          /\ acquired[t] <= 1 /\ executes[t] <= acquired[t] /\ fetches[t] <= executes[t]
          /\ (pc[t] = "ended" /\ acquired[t] = 1) => cur[t] = "closed"
          /\ ReturnedEnvelope(t) =>
                acquired[t] = 1 /\ executes[t] = 1 /\ fetches[t] = 1
          /\ pc[t] = "fetched" => executes[t] = 1 /\ fetches[t] = 1

C4_Witness ==
    /\ LeftByException("t1") /\ executes["t1"] = 1 /\ fetches["t1"] = 0
    /\ cur["t1"] = "closed"
    /\ ReturnedEnvelope("t2") /\ cur["t2"] = "closed"
    /\ open_cursors = 0

C5_WitnessCursor ==
    /\ pc["t1"] = "ended" /\ dbRaised["t1"] = "OperationalError" /\ acquired["t1"] = 0
    /\ outcome["t1"].raised = "OperationalError"

HasPredicate(st, column) == \E i \in 1..Len(st.where) : st.where[i][1] = column
FilterColumns == << <<"db_name", "DatabaseName">>, <<"table_name", "TableName">>,
                    <<"user_name", "t2.UserName">> >>
Sent(t) == stmt[t] # NoStmt

\* C6: in read_table_space and read_database_space a filter equal to the
\* empty string puts no predicate on its column into the statement executed,
\* whatever the other filter is
C6_EmptyFilterNoPredicate ==
    \A t \in Threads :
        (Sent(t) /\ call[t].tool \in {"read_table_space", "read_database_space"}) =>
            \A i \in 1..Len(FilterColumns) :
                (HasKey(call[t].args, FilterColumns[i][1])
                   /\ Arg(call[t], FilterColumns[i][1]) = Str(""))
                    => ~HasPredicate(stmt[t], FilterColumns[i][2])

C6_Witness ==
    /\ pc["t1"] = "executed" /\ call["t1"].tool = "read_table_space"
    /\ Arg(call["t1"], "db_name") = Str("") /\ Arg(call["t1"], "table_name") = NoneVal
    /\ stmt["t1"].sql = "table_space_table"
    /\ pc["t2"] = "executed" /\ call["t2"].tool = "read_database_space"
    /\ Arg(call["t2"], "db_name") = Str("")
    /\ stmt["t2"].sql = "database_space_all"

\* the call with every absent filter replaced by the empty string
EmptyForNone(c) ==
    ToolCall(c.tool,
             [i \in 1..Len(c.args) |->
                 IF c.args[i][1] \in {"user_name", "db_name", "table_name"}
                      /\ c.args[i][2] = NoneVal
                 THEN <<c.args[i][1], Str("")>> ELSE c.args[i]])

\* C7 as stated: a call with an absent (null) filter sends the statement
\* variant that the same call with that filter empty sends
C7_NoneSelectsAsEmpty ==
    \A t \in Threads :
        Sent(t) => stmt[t].sql = select_statement(EmptyForNone(call[t])).sql

\* what the code does with an absent filter: it compares the column with the
\* text 'None'
C7_CodeFiltersOnNone ==
    \A t \in Threads :
        Sent(t) =>
            \A i \in 1..Len(FilterColumns) :
                (HasKey(call[t].args, FilterColumns[i][1])
                   /\ Arg(call[t], FilterColumns[i][1]) = NoneVal)
                    => \E j \in 1..Len(stmt[t].where) :
                          stmt[t].where[j] = <<FilterColumns[i][2], "=", "'None'">>

\* C9: every envelope a call hands back has status "success"
C9_StatusSuccess ==
    \A t \in Threads :
        /\ ReturnedEnvelope(t) =>
              /\ HasKey(outcome[t].value, "status")
              /\ Get(outcome[t].value, "status") = Str("success")
        /\ ~ReturnedEnvelope(t) => outcome[t].value = <<>>

C9_Witness ==
    /\ ReturnedEnvelope("t1") /\ Get(outcome["t1"].value, "results") = <<>>
    /\ ReturnedEnvelope("t2") /\ Len(Get(outcome["t2"].value, "results")) = 1
    /\ Get(outcome["t1"].value, "status") = Str("success")

Idle(t) == pc[t] = "idle"
NothingHeld(t) ==
    /\ call[t] = NoCall /\ cur[t] = "none" /\ stmt[t] = NoStmt /\ dbresp[t] = NoResponse
    /\ fetched[t] = <<>> /\ outcome[t] = NoOutcome /\ dbRaised[t] = "none"

\* C13: whatever the other call does meanwhile, the envelope a call returns is
\* the one its own arguments and its own database response give (what it
\* returns when run alone), the rows it works on are those of its own
\* response, and once a call is over nothing of it is left for a later call
C13_CallsIndependent ==
    \A t \in Threads :
        /\ ReturnedEnvelope(t) =>
              outcome[t] = build_response(call[t], dbresp[t].description, dbresp[t].rows)
        /\ pc[t] = "fetched" => fetched[t] = dbresp[t].rows
        /\ Sent(t) => stmt[t] = select_statement(call[t])
        /\ Idle(t) => NothingHeld(t)
        /\ pc[t] = "called" =>
              /\ cur[t] = "none" /\ stmt[t] = NoStmt /\ dbresp[t] = NoResponse
              /\ fetched[t] = <<>> /\ outcome[t] = NoOutcome

C13_Witness ==
    /\ ReturnedEnvelope("t1") /\ ReturnedEnvelope("t2")
    /\ call["t1"].tool = "read_sql_list" /\ call["t2"].tool = "read_database_version"
    /\ dbresp["t1"].rows # <<>> /\ dbresp["t2"].rows # <<>>
    /\ dbresp["t1"].rows # dbresp["t2"].rows
    /\ Get(outcome["t1"].value, "results") # Get(outcome["t2"].value, "results")
    /\ open_cursors = 0

\* both calls inside their with blocks at once, each with the rows of its own
\* response
C13_WitnessInterleaved ==
    /\ pc["t1"] = "fetched" /\ pc["t2"] = "fetched" /\ open_cursors = 2
    /\ fetched["t1"] # fetched["t2"]
    /\ fetched["t1"] = dbresp["t1"].rows /\ fetched["t2"] = dbresp["t2"].rows

\* the name of the count in each tool's metadata
CountKey ==
    << <<"read_sql_list", "total_queries">>, <<"read_table_space", "total_tables">>,
       <<"read_database_space", "total_databases">>, <<"read_database_version", "total_rows">>,
       <<"read_resusage_summary", "total_rows">> >>

\* C14: every envelope a tool hands back has the keys status, metadata and
\* results; its metadata names the tool, echoes every argument with the value
\* the caller passed and counts the records of results under the tool's
\* count key, 0 for an empty result
C14_EnvelopeMetadata ==
    \A t \in Threads :
        ReturnedEnvelope(t) =>
            LET env == outcome[t].value IN
            /\ Keys(env) = <<"status", "metadata", "results">>
            /\ LET meta == Get(env, "metadata") IN
               /\ HasKey(meta, "tool_name")
               /\ Get(meta, "tool_name") = Str(call[t].tool)
               /\ \A i \in 1..Len(call[t].args) :
                     /\ HasKey(meta, call[t].args[i][1])
                     /\ Get(meta, call[t].args[i][1]) = call[t].args[i][2]
               /\ HasKey(meta, Get(CountKey, call[t].tool))
               /\ Get(meta, Get(CountKey, call[t].tool)) = IntVal(Len(Get(env, "results")))

C14_Witness ==
    /\ ReturnedEnvelope("t1") /\ call["t1"].tool = "read_table_space"
    /\ Arg(call["t1"], "db_name") = Str("bob") /\ Arg(call["t1"], "table_name") = NoneVal
    /\ Get(outcome["t1"].value, "results") = <<>>
    /\ Get(Get(outcome["t1"].value, "metadata"), "total_tables") = Val("int", "0")
    /\ Get(Get(outcome["t1"].value, "metadata"), "table_name") = NoneVal
    /\ ReturnedEnvelope("t2") /\ call["t2"].tool = "read_sql_list"
    /\ Len(Get(outcome["t2"].value, "results")) = 1
    /\ Get(Get(outcome["t2"].value, "metadata"), "total_queries") = Val("int", "1")
    /\ Get(Get(outcome["t2"].value, "metadata"), "no_days") = Val("int", "7")

\* C15: read_sql_list sends a statement with a predicate on the user name if
\* and only if user_name is not the empty string, and in either variant the
\* first predicate is the time window with str(no_days) between its quote
\* marks
C15_UserVariantAndTimeWindow ==
    \A t \in Threads :
        (Sent(t) /\ call[t].tool = "read_sql_list") =>
            /\ HasPredicate(stmt[t], "t2.UserName") <=> Arg(call[t], "user_name") # Str("")
            /\ stmt[t].sql = (IF Arg(call[t], "user_name") # Str("")
                              THEN "sql_list_user" ELSE "sql_list_all")
            /\ Len(stmt[t].where) >= 1
            /\ stmt[t].where[1] =
                  <<"t1.CollectTimeStamp", ">=",
                    "CURRENT_TIMESTAMP - INTERVAL '" \o Arg(call[t], "no_days").v \o "' DAY">>

C15_Witness ==
    /\ pc["t1"] = "executed" /\ call["t1"].tool = "read_sql_list"
    /\ Arg(call["t1"], "user_name") = Str("") /\ Arg(call["t1"], "no_days") = NoneVal
    /\ stmt["t1"].sql = "sql_list_all"
    /\ stmt["t1"].where[1][3] = "CURRENT_TIMESTAMP - INTERVAL 'None' DAY"
    /\ pc["t2"] = "executed" /\ call["t2"].tool = "read_sql_list"
    /\ Arg(call["t2"], "user_name") = Str("bob") /\ Arg(call["t2"], "no_days") = Val("int", "7")
    /\ stmt["t2"].where = << <<"t1.CollectTimeStamp", ">=", "CURRENT_TIMESTAMP - INTERVAL '7' DAY">>,
                             <<"t2.UserName", "=", "'bob'">> >>

\* the number of quote marks in a text
RECURSIVE QuoteMarks(_)
QuoteMarks(text) ==
    IF Len(text) = 0 THEN 0
    ELSE (IF SubSeq(text, 1, 1) = "'" THEN 1 ELSE 0) + QuoteMarks(SubSeq(text, 2, Len(text)))
\* where the string literal that opens an operand is closed: at its second
\* quote mark
LiteralEnd(text) == CHOOSE i \in 2..Len(text) :
                        /\ SubSeq(text, i, i) = "'"
                        /\ \A k \in 2..(i - 1) : SubSeq(text, k, k) # "'"
NonEmptyString(v) == v.t = "str" /\ v # Str("")

\* C16: a non-empty filter string stands in the statement sent character for
\* character between the two quote marks of its predicate, with no escaping
\* and no binding: the operand of a quote-free value is one string literal,
\* the operand of a value with a quote mark closes its literal early and
\* leaves the rest of the value outside it
C16_FilterVerbatim ==
    \A t \in Threads :
        Sent(t) =>
            \A i \in 1..Len(FilterColumns) :
                (HasKey(call[t].args, FilterColumns[i][1])
                   /\ NonEmptyString(Arg(call[t], FilterColumns[i][1])))
                    => LET value == Arg(call[t], FilterColumns[i][1]).v
                           operand == "'" \o value \o "'"
                       IN  /\ \E j \in 1..Len(stmt[t].where) :
                                 stmt[t].where[j] = <<FilterColumns[i][2], "=", operand>>
                           /\ QuoteMarks(operand) = QuoteMarks(value) + 2
                           /\ QuoteMarks(value) = 0 <=> LiteralEnd(operand) = Len(operand)
                           /\ QuoteMarks(value) > 0 => LiteralEnd(operand) < Len(operand)

C16_Witness ==
    /\ pc["t1"] = "executed" /\ call["t1"].tool = "read_table_space"
    /\ Arg(call["t1"], "db_name") = Str("o'b") /\ Arg(call["t1"], "table_name") = Str("bob")
    /\ stmt["t1"].where = << <<"DatabaseName", "=", "'o'b'">>, <<"TableName", "=", "'bob'">> >>
    /\ LiteralEnd(stmt["t1"].where[1][3]) < Len(stmt["t1"].where[1][3])
    /\ LiteralEnd(stmt["t1"].where[2][3]) = Len(stmt["t1"].where[2][3])
    /\ pc["t2"] = "executed" /\ call["t2"].tool = "read_sql_list"
    /\ Arg(call["t2"], "user_name") = Str("o'b")
    /\ stmt["t2"].where[2] = <<"t2.UserName", "=", "'o'b'">>

C16_WitnessDatabaseSpace ==
    /\ pc["t1"] = "executed" /\ call["t1"].tool = "read_database_space"
    /\ Arg(call["t1"], "db_name") = Str("o'b")
    /\ stmt["t1"].where[2] = <<"DatabaseName", "=", "'o'b'">>

(***************************************************************************)
(* SpecPolicy: serialize_teradata_types on every bounded value, called for *)
(* a cell of a row (any value) or as the default hook of json.dumps (a     *)
(* value json cannot encode itself)                                        *)
(***************************************************************************)
PolicyValues ==
    Values
    \cup {Val("date", d) : d \in Dates}
    \cup {DateTime(d, tm) : d \in Dates, tm \in Times}
    \cup {Val("Decimal", x) : x \in DecimalTexts}
    \cup {Val("time", tm) : tm \in Times}
    \cup {Val("timedelta", "1 day, 0:00:00")}

SInit ==
    /\ sobj \in PolicyValues
    /\ site \in {"rows_to_json", "json.dumps"}
    /\ site = "json.dumps" => sobj.t \notin NativeTypes
    /\ spc = "call"
    /\ sret = NoneVal
    /\ NInitIdle
    /\ EInitIdle
    /\ TInitIdle

\* col: serialize_teradata_types(value)
SerializeCell ==
    /\ spc = "call" /\ site = "rows_to_json"
    /\ sret' = serialize_teradata_types(sobj)
    /\ spc' = "returned"
    /\ UNCHANGED <<sobj, site, nvars, evars, tvars>>

\* json.dumps(response, default=serialize_teradata_types)
SerializeDefault ==
    /\ spc = "call" /\ site = "json.dumps"
    /\ sret' = serialize_teradata_types(sobj)
    /\ spc' = "returned"
    /\ UNCHANGED <<sobj, site, nvars, evars, tvars>>

SpecPolicy == SInit /\ [][SerializeCell \/ SerializeDefault]_vars

(***************************************************************************)
(* Claims about serialize_teradata_types (SpecPolicy)                      *)
(***************************************************************************)
SReturned == spc = "returned"
DateTimeParts == CHOOSE p \in Dates \X Times : sobj.v = p[1] \o " " \o p[2]

\* one rule per value that json cannot encode itself: a date becomes its ISO
\* text, a datetime its ISO text with the time part, a Decimal a float, any
\* other its str() text
PolicyRule ==
    CASE sobj.t = "date" -> sret = Str(sobj.v)
      [] sobj.t = "datetime" ->
            /\ sret = Str(DateTimeParts[1] \o "T" \o DateTimeParts[2])
            /\ sret.v # DateTimeParts[1]
      [] sobj.t = "Decimal" -> sret.t = "float"
      [] OTHER -> sret = Str(sobj.v)

\* C11 as stated: the policy is total, no value of any type causes an error,
\* and each value that is not JSON-native gets exactly its one rule
C11_PolicyTotal ==
    SReturned =>
        /\ sret.t # "raise"
        /\ sobj.t \notin NativeTypes => PolicyRule

\* what the code does: the same, but float() of a signaling NaN Decimal
\* raises ValueError
C11_PolicyButSignalingNaN ==
    SReturned =>
        IF sobj = Val("Decimal", "sNaN") THEN sret = Throw("ValueError")
        ELSE /\ sret.t # "raise"
             /\ sobj.t \notin NativeTypes => PolicyRule

====
